---- MODULE Spec2Model ----
(***************************************************************************)
(* A model of fleetcomp.py and teamcomp.py: the data model (Ship, Player,  *)
(* RestrictionSet, Team), the composition validator, the backtracking      *)
(* enumerator, the entry points built on them, the rule-set copy           *)
(* operation and the player-selection menu.                                *)
(*                                                                         *)
(* Python objects without __eq__ compare by identity: a Ship carries an    *)
(* id field standing for its identity, so record equality in the model is  *)
(* object equality in the program.  The iteration order of a Python set is *)
(* fixed within one process and arbitrary across processes: it is modelled *)
(* as a function of the set and of the process's hash seed.                *)
(***************************************************************************)
EXTENDS Integers, Sequences, FiniteSets, TLC

\* ------------------------------------------------------------------ bounds
MaxInv == 2        \* ships listed in one player's inventory, at most
MaxTeam == 4       \* largest team size (TeamSize) tried
MaxSeed == 1       \* hash seeds 0..MaxSeed

\* --------------------------------------------------------------- constants
ShipType == {"SS", "DD", "CA", "BB", "CV"}
HardCodedGroupSize == 7

\* The players of the roster file, and the ship names of the inventories.
PlayerNames == <<"A", "B", "C">>
InvTypes == <<"SS", "DD">>
NamesOf == [t \in {"SS", "DD"} |-> IF t = "SS" THEN {"Alpha"} ELSE {"Bravo"}]
ShipNames == {"Alpha", "Bravo"}

Range(s) == {s[i] : i \in DOMAIN s}

PlayerIdx(name) == CHOOSE i \in DOMAIN PlayerNames : PlayerNames[i] = name

\* ------------------------------------------------------------- data model
Ship(ship_name, ship_type, player, oid) ==
    [name |-> ship_name, type |-> ship_type, player |-> player, id |-> oid]

\* The number of Ship objects Player.__init__ has built before it reaches
\* the list of InvTypes[k].
RECURSIVE Offset(_, _)
Offset(ships, k) ==
    IF k = 1 THEN 0 ELSE Offset(ships, k - 1) + Len(ships[InvTypes[k - 1]])

\* Player.__init__: one Ship object per entry of every list of the dict.
Player(name, ships) ==
    [name |-> name,
     ships |-> {Ship(ships[InvTypes[k]][i], InvTypes[k], name, Offset(ships, k) + i) :
                  <<k, i>> \in {ki \in (DOMAIN InvTypes) \X (1..MaxInv) :
                                   ki[2] <= Len(ships[InvTypes[ki[1]]])}}]

\* Player.__bool__
PlayerBool(p) == p.ships # {}

\* ------------------------------------------------- iteration order of sets
Reverse(s) == [i \in 1..Len(s) |-> s[Len(s) + 1 - i]]
Rotate(s, k) == [i \in 1..Len(s) |-> s[((i - 1 + k) % Len(s)) + 1]]
Permute(s, seed) ==
    IF Len(s) = 0 THEN s
    ELSE LET r == Rotate(s, (seed \div 2) % Len(s))
         IN IF seed % 2 = 1 THEN Reverse(r) ELSE r

ShipKey(s) == PlayerIdx(s.player) * (MaxInv + 1) + s.id

RECURSIVE SortShips(_)
SortShips(S) ==
    IF S = {} THEN <<>>
    ELSE LET m == CHOOSE x \in S : \A y \in S : ShipKey(x) <= ShipKey(y)
         IN <<m>> \o SortShips(S \ {m})

RECURSIVE SortPlayers(_)
SortPlayers(S) ==
    IF S = {} THEN <<>>
    ELSE LET m == CHOOSE x \in S : \A y \in S : PlayerIdx(x.name) <= PlayerIdx(y.name)
         IN <<m>> \o SortPlayers(S \ {m})

\* for ship in <set of Ship>
IterShips(S, seed) == Permute(SortShips(S), seed)
\* for player in <set of Player>
IterPlayers(S, seed) == Permute(SortPlayers(S), seed)

\* ------------------------------------------------------------ RestrictionSet
\* is_banned with the test of the category left out
is_banned_by_name(rs, ship) == ship.name \in rs.banned_ships

is_banned(rs, ship) ==
    ship.name \in rs.banned_ships \/ ship.type \in rs.banned_types

Matches(rinfo, ship) ==
    IF rinfo.rtype = "ships" THEN ship.name \in rinfo.match ELSE ship.type \in rinfo.match

\* rcounts[rname] += <bool>, for every rule, for one ship
Tally(rs, rcounts, ship) ==
    [rname \in DOMAIN rs.restrictions |->
        (IF rname \in DOMAIN rcounts THEN rcounts[rname] ELSE 0)
        + (IF Matches(rs.restrictions[rname], ship) THEN 1 ELSE 0)]

\* The loop over the composition: stops at the first banned ship.
RECURSIVE CountLoop(_, _, _)
CountLoop(rs, todo, rcounts) ==
    IF todo = <<>> THEN [banned |-> FALSE, rcounts |-> rcounts]
    ELSE IF is_banned(rs, Head(todo)) THEN [banned |-> TRUE, rcounts |-> rcounts]
    ELSE CountLoop(rs, Tail(todo), Tally(rs, rcounts, Head(todo)))

is_valid(rs, composition, seed) ==
    IF Cardinality(composition) > rs.size_limit THEN FALSE
    ELSE LET r == CountLoop(rs, IterShips(composition, seed), <<>>)
         IN IF r.banned THEN FALSE
            ELSE \A rule \in DOMAIN r.rcounts :
                    ~(r.rcounts[rule] > rs.restrictions[rule].allowed)

is_full_team(rs, composition) == Cardinality(composition) = rs.size_limit

RECURSIVE team_compositions(_, _, _, _)
RECURSIVE Branches(_, _, _, _, _)

\* team_compositions with the is_valid test left out
team_compositions_unchecked(rs, selected, group, seed) ==
    IF is_full_team(rs, selected) THEN <<selected>>
    ELSE IF group = <<>> THEN <<>>
    ELSE Branches(rs, selected, IterShips(group[1].ships, seed), Tail(group), seed)

\* team_compositions yielding at the end of the group only
team_compositions_at_leaf(rs, selected, group, seed) ==
    IF group = <<>>
    THEN IF is_valid(rs, selected, seed) /\ is_full_team(rs, selected)
         THEN <<selected>> ELSE <<>>
    ELSE Branches(rs, selected, IterShips(group[1].ships, seed), Tail(group), seed)

\* the loop over group[0].ships stopping one ship early
Branches_one_short(rs, selected, todo, rest, seed) ==
    IF todo = <<>> \/ Tail(todo) = <<>> THEN <<>>
    ELSE team_compositions(rs, selected \cup {Head(todo)}, rest, seed)
         \o Branches(rs, selected, Tail(todo), rest, seed)

team_compositions(rs, selected, group, seed) ==
    IF is_valid(rs, selected, seed) /\ is_full_team(rs, selected) THEN <<selected>>
    ELSE IF group = <<>> THEN <<>>
    ELSE Branches(rs, selected, IterShips(group[1].ships, seed), Tail(group), seed)
\* for ship in group[0].ships: yield from team_compositions(selected | {ship}, group[1:])
Branches(rs, selected, todo, rest, seed) ==
    IF todo = <<>> THEN <<>>
    ELSE team_compositions(rs, selected \cup {Head(todo)}, rest, seed)
         \o Branches(rs, selected, Tail(todo), rest, seed)

\* ------------------------------------------------------------------- Team
\* itertools.combinations(pool, r): the r-length subsequences of pool, in
\* lexicographic order of their positions.
RECURSIVE combinations(_, _)
combinations(pool, r) ==
    IF r = 0 THEN << <<>> >>
    ELSE IF Len(pool) < r THEN <<>>
    ELSE LET with == combinations(Tail(pool), r - 1)
         IN [i \in 1..Len(with) |-> <<Head(pool)>> \o with[i]]
            \o combinations(Tail(pool), r)

RECURSIVE YieldFromAll(_, _, _)
YieldFromAll(rs, groups, seed) ==
    IF groups = <<>> THEN <<>>
    ELSE team_compositions(rs, {}, Head(groups), seed)
         \o YieldFromAll(rs, Tail(groups), seed)

\* fleetcomp.py
generate_comps(team, rs, seed) ==
    YieldFromAll(rs, combinations(IterPlayers(team, seed), rs.size_limit), seed)

\* teamcomp.py
generate_comps_teamcomp(team, rs, seed) ==
    YieldFromAll(rs, combinations(IterPlayers(team, seed), HardCodedGroupSize), seed)

\* ------------------------------------------------------------------ inputs
Lists(t) == UNION {[1..n -> NamesOf[t]] : n \in 0..MaxInv}
TotalLen(d) == Offset(d, Len(InvTypes) + 1)
\* A player's inventory in the roster file: ship type -> list of ship names.
Inventories ==
    {d \in [Range(InvTypes) -> UNION {Lists(t) : t \in Range(InvTypes)}] :
        /\ \A t \in Range(InvTypes) : d[t] \in Lists(t)
        /\ TotalLen(d) <= MaxInv}

\* Team.load: one Player per name of the roster file.
TeamLoad(team_info) ==
    {Player(PlayerNames[i], team_info[i]) : i \in DOMAIN PlayerNames}

Rosters == {TeamLoad(ti) : ti \in [DOMAIN PlayerNames -> Inventories]}

\* RestrictionSet.__init__
RestrictionSet(TeamSize, Banned, rules) ==
    [size_limit |-> TeamSize,
     banned_ships |-> Banned.ships,
     banned_types |-> Banned.types,
     restrictions |-> rules]

NoRules == [r \in {} |-> 0]
NoBans == [ships |-> {}, types |-> {}]
BanChoices == {NoBans, [ships |-> {"Alpha"}, types |-> {}]}
RuleChoices ==
    {NoRules,
     [r \in {"no double SS"} |-> [rtype |-> "types", match |-> {"SS"}, allowed |-> 1]]}
RuleSets ==
    {RestrictionSet(n, b, r) : n \in 0..MaxTeam, b \in BanChoices, r \in RuleChoices}

\* ------------------------------------------------------------------- state
VARIABLES
    players,    \* Team.players
    rs,         \* the RestrictionSet in use
    seed,       \* the hash seed of the running process
    pc,         \* where the program is
    prog,       \* which program ran: "fleetcomp" or "teamcomp"
    group,      \* the group passed to team_compositions by a direct call
    out,        \* the compositions yielded, in order
    err,        \* the exception raised, or "none"
    prev,       \* the compositions an earlier run yielded, in order
    runs,       \* the number of earlier runs
    comp,       \* a composition under construction (selected)
    verdict,    \* what is_valid returned for comp: "valid", "invalid"; or "none"
    objs,       \* the RestrictionSet objects alive: fields that are references
    heap,       \* the mutable sets and dicts those objects refer to
    expect,     \* the value each object of objs has when no other object's change reaches it
    options,    \* Team.menu: the numbers offered, with the player each stands for
    msg,        \* Team.menu: what the menu printed last
    division    \* Team.menu: the players of the team it returned

enumVars == <<players, rs, seed, pc, prog, group, out, err>>
rerunVars == <<prev, runs>>
validVars == <<comp, verdict>>
copyVars == <<objs, heap, expect>>
menuVars == <<options, msg, division>>
vars == <<enumVars, rerunVars, validVars, copyVars, menuVars>>

Programs == {"fleetcomp", "teamcomp"}

Idle ==
    /\ pc = "start"
    /\ prog = "none"
    /\ group = <<>>
    /\ out = <<>>
    /\ err = "none"
    /\ prev = <<>>
    /\ runs = 0
    /\ comp = {}
    /\ verdict = "none"
    /\ objs = <<>>
    /\ heap = <<>>
    /\ expect = <<>>
    /\ options = <<>>
    /\ msg = "none"
    /\ division = {}

Init ==
    /\ players \in Rosters
    /\ rs \in RuleSets
    /\ seed \in 0..MaxSeed
    /\ Idle

\* Team.generate_comps, drained by its caller.
GenerateComps(p) ==
    /\ pc = "start"
    /\ prog' = p
    /\ out' = IF p = "fleetcomp" THEN generate_comps(players, rs, seed)
              ELSE generate_comps_teamcomp(players, rs, seed)
    /\ pc' = "generated"
    /\ UNCHANGED <<players, rs, seed, group, err>>
    /\ UNCHANGED <<rerunVars, validVars, copyVars, menuVars>>

\* count(): fleetcomp.py checks the number of players with ships first.
Count(p) ==
    /\ pc = "start"
    /\ prog' = p
    /\ IF p = "fleetcomp" /\ Cardinality({q \in players : PlayerBool(q)}) < rs.size_limit
       THEN /\ err' = "ConfigurationError"
            /\ pc' = "raised"
            /\ out' = out
       ELSE /\ out' = IF p = "fleetcomp" THEN generate_comps(players, rs, seed)
                      ELSE generate_comps_teamcomp(players, rs, seed)
            /\ pc' = "counted"
            /\ err' = err
    /\ UNCHANGED <<players, rs, seed, group>>
    /\ UNCHANGED <<rerunVars, validVars, copyVars, menuVars>>

\* A direct call team_compositions(set(), list(group)), the group being any
\* combination of the team's players.
Assign(g) ==
    /\ pc = "start"
    /\ group' = g
    /\ out' = team_compositions(rs, {}, g, seed)
    /\ pc' = "assigned"
    /\ UNCHANGED <<players, rs, seed, prog, err>>
    /\ UNCHANGED <<rerunVars, validVars, copyVars, menuVars>>

Next ==
    \/ \E p \in Programs : GenerateComps(p)
    \/ \E p \in Programs : Count(p)
    \/ \E k \in 0..Len(PlayerNames) :
          \E g \in Range(combinations(IterPlayers(players, seed), k)) : Assign(g)

Spec == Init /\ [][Next]_vars

\* ------------------------------------------------- running a second time
MaxRuns == 2

\* generate_comps called again on the same Team object, in the same process.
CallAgain ==
    /\ pc = "generated"
    /\ prog = "fleetcomp"
    /\ runs < MaxRuns
    /\ prev' = out
    /\ runs' = runs + 1
    /\ out' = generate_comps(players, rs, seed)
    /\ UNCHANGED <<players, rs, seed, pc, prog, group, err>>
    /\ UNCHANGED <<validVars, copyVars, menuVars>>

\* The program started again on the same roster file and the same rules
\* file: the objects are built anew, under the new process's hash seed.
RunAgain(s) ==
    /\ pc = "generated"
    /\ prog = "fleetcomp"
    /\ runs < MaxRuns
    /\ prev' = out
    /\ runs' = runs + 1
    /\ seed' = s
    /\ out' = generate_comps(players, rs, s)
    /\ UNCHANGED <<players, rs, pc, prog, group, err>>
    /\ UNCHANGED <<validVars, copyVars, menuVars>>

\* Rosters that list no ship twice: every ship set holds Ships of different
\* hashes, so that its order is the hash seed's alone.
RostersOfDistinctShips ==
    {team \in Rosters :
        \A p \in team : \A s1, s2 \in p.ships : s1.name = s2.name => s1 = s2}

InitRerun ==
    /\ players \in RostersOfDistinctShips
    /\ rs \in {r \in RuleSets : r.banned_ships = {} /\ r.restrictions = NoRules}
    /\ seed \in 0..MaxSeed
    /\ Idle

NextRerun ==
    \/ GenerateComps("fleetcomp")
    \/ CallAgain
    \/ \E s \in 0..MaxSeed : RunAgain(s)

SpecRerun == InitRerun /\ [][NextRerun]_vars

\* ------------------------------------------------------- the validator alone
MaxAllowed == 1

\* The ships that compositions are built from: two players owning an Alpha
\* listed twice and a Bravo each.
ShipPool ==
    UNION {Player(n, [t \in Range(InvTypes) |->
                        IF t = "SS" THEN <<"Alpha", "Alpha">> ELSE <<"Bravo">>]).ships :
             n \in {"A", "B"}}

AllowedValues == (-1)..MaxAllowed
RuleNames == {"cap Bravo", "cap SS"}
RuleFor(rname, a) ==
    IF rname = "cap Bravo" THEN [rtype |-> "ships", match |-> {"Bravo"}, allowed |-> a]
    ELSE [rtype |-> "types", match |-> {"SS"}, allowed |-> a]
RuleDicts ==
    UNION {{[r \in D |-> RuleFor(r, a[r])] : a \in [D -> AllowedValues]} :
             D \in SUBSET RuleNames}
ValidatorRuleSets ==
    {RestrictionSet(n, [ships |-> bs, types |-> bt], r) :
        n \in 0..MaxTeam, bs \in SUBSET {"Alpha"}, bt \in SUBSET {"DD"}, r \in RuleDicts}

\* selected | {ship}
Select(ship) ==
    /\ ship \notin comp
    /\ comp' = comp \cup {ship}
    /\ verdict' = "none"
    /\ UNCHANGED <<enumVars, rerunVars, copyVars, menuVars>>

\* is_valid(comp)
Validate ==
    /\ verdict = "none"
    /\ verdict' = IF is_valid(rs, comp, seed) THEN "valid" ELSE "invalid"
    /\ UNCHANGED <<comp, enumVars, rerunVars, copyVars, menuVars>>

InitValid ==
    /\ players = {}
    /\ rs \in ValidatorRuleSets
    /\ seed \in 0..MaxSeed
    /\ Idle

NextValid ==
    \/ \E ship \in ShipPool : Select(ship)
    \/ Validate

SpecValid == InitValid /\ [][NextValid]_vars

\* ------------------------------------------------------- with_team_size
MaxObjs == 3
MaxCopySize == 2

\* The value of object i: its fields, references followed.
View(st, i) ==
    [size_limit |-> st.objs[i].size_limit,
     banned_ships |-> st.heap[st.objs[i].banned_ships],
     banned_types |-> st.heap[st.objs[i].banned_types],
     restrictions |-> st.heap[st.objs[i].restrictions]]

\* copy.copy in place of copy.deepcopy: the new object refers to the same
\* sets and the same dict.
with_team_size_shallow(st, i, n) ==
    [objs |-> Append(st.objs, [st.objs[i] EXCEPT !.size_limit = n]),
     heap |-> st.heap]

\* new = copy.deepcopy(self); new.size_limit = n; return new
with_team_size(st, i, n) ==
    LET self == st.objs[i]
        k == Len(st.heap)
    IN [objs |-> Append(st.objs,
                        [size_limit |-> n,
                         banned_ships |-> k + 1,
                         banned_types |-> k + 2,
                         restrictions |-> k + 3]),
        heap |-> st.heap \o <<st.heap[self.banned_ships],
                              st.heap[self.banned_types],
                              st.heap[self.restrictions]>>]

WithTeamSize(i, n) ==
    /\ Len(objs) < MaxObjs
    /\ LET st == with_team_size([objs |-> objs, heap |-> heap], i, n)
       IN /\ objs' = st.objs
          /\ heap' = st.heap
    /\ expect' = Append(expect, [expect[i] EXCEPT !.size_limit = n])
    /\ UNCHANGED <<enumVars, rerunVars, validVars, menuVars>>

\* objs[i].banned_ships.add(name), by a user of the object
BanShip(i, name) ==
    /\ name \notin heap[objs[i].banned_ships]
    /\ heap' = [heap EXCEPT ![objs[i].banned_ships] = @ \cup {name}]
    /\ expect' = [expect EXCEPT ![i].banned_ships = @ \cup {name}]
    /\ UNCHANGED <<objs, enumVars, rerunVars, validVars, menuVars>>

\* objs[i].restrictions[rname]["allowed"] = 0, by a user of the object
TightenRule(i, rname) ==
    /\ rname \in DOMAIN heap[objs[i].restrictions]
    /\ heap[objs[i].restrictions][rname].allowed # 0
    /\ heap' = [heap EXCEPT ![objs[i].restrictions][rname].allowed = 0]
    /\ expect' = [expect EXCEPT ![i].restrictions[rname].allowed = 0]
    /\ UNCHANGED <<objs, enumVars, rerunVars, validVars, menuVars>>

InitCopy ==
    /\ players = {}
    /\ rs \in {r \in RuleSets : r.size_limit = MaxTeam}
    /\ seed = 0
    /\ pc = "start" /\ prog = "none" /\ group = <<>> /\ out = <<>> /\ err = "none"
    /\ prev = <<>> /\ runs = 0 /\ comp = {} /\ verdict = "none"
    /\ options = <<>> /\ msg = "none" /\ division = {}
    /\ objs = <<[size_limit |-> rs.size_limit,
                 banned_ships |-> 1, banned_types |-> 2, restrictions |-> 3]>>
    /\ heap = <<rs.banned_ships, rs.banned_types, rs.restrictions>>
    /\ expect = <<rs>>

NextCopy ==
    \/ \E i \in DOMAIN objs : \E n \in 1..MaxCopySize : WithTeamSize(i, n)
    \/ \E i \in DOMAIN objs : \E name \in ShipNames : BanShip(i, name)
    \/ \E i \in DOMAIN objs : \E rname \in {"no double SS"} : TightenRule(i, rname)

SpecCopy == InitCopy /\ [][NextCopy]_vars

\* ---------------------------------------------------------------- Team.menu
MaxSel == 3

\* {i: p.name for i, p in enumerate(self.players) if p}
MenuOptions(team, s) ==
    LET ps == IterPlayers(team, s)
    IN [i \in {j \in 0..(Len(ps) - 1) : PlayerBool(ps[j + 1])} |-> ps[i + 1].name]

\* Team.select
select(team, names) == {p \in team : p.name \in names}

\* What the user may type: numbers separated by commas.
Selections == UNION {[1..n -> 0..Len(PlayerNames)] : n \in 1..MaxSel}

\* The head of menu(): the options, and the check of their number.
MenuOpen ==
    /\ pc = "start"
    /\ prog' = "fleetcomp"
    /\ options' = MenuOptions(players, seed)
    /\ IF Cardinality(DOMAIN options') < rs.size_limit
       THEN err' = "ConfigurationError" /\ pc' = "raised"
       ELSE err' = err /\ pc' = "prompt"
    /\ UNCHANGED <<players, rs, seed, group, out, msg, division>>
    /\ UNCHANGED <<rerunVars, validVars, copyVars>>

\* An input with a q in it.
MenuQuit ==
    /\ pc = "prompt"
    /\ err' = "Quit"
    /\ pc' = "quit"
    /\ UNCHANGED <<players, rs, seed, prog, group, out, options, msg, division>>
    /\ UNCHANGED <<rerunVars, validVars, copyVars>>

\* An input that int() rejects: the menu asks again.
MenuInvalid ==
    /\ pc = "prompt"
    /\ msg' = "Invalid selection"
    /\ UNCHANGED <<enumVars, options, division>>
    /\ UNCHANGED <<rerunVars, validVars, copyVars>>

\* An input of numbers.
MenuNumbers(chosen_numbers) ==
    /\ pc = "prompt"
    /\ IF Len(chosen_numbers) # rs.size_limit
       THEN /\ msg' = "teammates were selected, but more or fewer were needed"
            /\ UNCHANGED <<pc, err, division>>
       ELSE IF \E i \in Range(chosen_numbers) : i \notin DOMAIN options
       THEN /\ err' = "KeyError"
            /\ pc' = "crashed"
            /\ UNCHANGED <<msg, division>>
       ELSE /\ division' = select(players, {options[i] : i \in Range(chosen_numbers)})
            /\ pc' = "returned"
            /\ UNCHANGED <<msg, err>>
    /\ UNCHANGED <<players, rs, seed, prog, group, out, options>>
    /\ UNCHANGED <<rerunVars, validVars, copyVars>>

InitMenu ==
    /\ players \in Rosters
    /\ rs \in {r \in RuleSets : r.banned_ships = {} /\ r.restrictions = NoRules}
    /\ seed \in 0..MaxSeed
    /\ Idle

NextMenu ==
    \/ MenuOpen
    \/ MenuQuit
    \/ MenuInvalid
    \/ \E ns \in Selections : MenuNumbers(ns)

SpecMenu == InitMenu /\ [][NextMenu]_vars

\* ------------------------------------------------------ what the claims use
\* The choices of exactly one ship from every player of G.
Choices(G) ==
    {c \in SUBSET (UNION {p.ships : p \in G}) :
        \A p \in G : Cardinality(c \cap p.ships) = 1}

ValidChoices(G) == {c \in Choices(G) : is_valid(rs, c, seed)}

NoRepeats(s) == \A i, j \in DOMAIN s : s[i] = s[j] => i = j

Prefix(s, n) == SubSeq(s, 1, n)

\* C1 (Exactness): every composition yielded by fleetcomp.py's
\* Team.generate_comps has exactly size_limit ships, no two of them with the
\* same owner, and passes is_valid.
C1_Exactness ==
    (prog = "fleetcomp" /\ pc \in {"generated", "counted"}) =>
        \A i \in DOMAIN out :
            /\ Cardinality(out[i]) = rs.size_limit
            /\ \A s1, s2 \in out[i] : s1 # s2 => s1.player # s2.player
            /\ is_valid(rs, out[i], seed)

C1_Witness ==
    /\ prog = "fleetcomp" /\ pc = "generated"
    /\ rs.size_limit = 2
    /\ Len(out) >= 2
    /\ \E G \in SUBSET players :
          Cardinality(G) = 2 /\ Cardinality(ValidChoices(G)) < Cardinality(Choices(G))

\* C2 (Completeness): for a group of exactly team_size players,
\* team_compositions(set(), group) yields exactly the choices of one ship per
\* player of the group that pass is_valid, each of them once.
C2_Completeness ==
    (pc = "assigned" /\ Len(group) = rs.size_limit) =>
        /\ Range(out) = ValidChoices(Range(group))
        /\ NoRepeats(out)

C2_Witness ==
    /\ pc = "assigned" /\ Len(group) = rs.size_limit
    /\ rs.size_limit = 2
    /\ Len(out) >= 2
    /\ Len(out) < Cardinality(Choices(Range(group)))

\* C3: when team_size exceeds the number of players, the composition
\* operation of fleetcomp.py ends with a ConfigurationError, never silently.
C3_ErrorBeforeSearch ==
    (prog = "fleetcomp" /\ pc \in {"generated", "counted", "raised"}
       /\ rs.size_limit > Cardinality(players)) =>
        err = "ConfigurationError"

\* C4 (Mode A): in both programs, when the team has at least team_size
\* players, generate_comps yields every valid choice of one ship per player
\* over every combination of exactly team_size players, and nothing else.
C4_ModeA ==
    (pc = "generated" /\ rs.size_limit >= 1 /\ Cardinality(players) >= rs.size_limit) =>
        Range(out) = UNION {ValidChoices(G) :
                              G \in {H \in SUBSET players : Cardinality(H) = rs.size_limit}}

\* C6: ships are equal when their name, category and owner are equal, so a
\* player's ship set holds a ship listed twice once, and no composition is
\* yielded twice because of it.
SameTuple(s1, s2) ==
    s1.name = s2.name /\ s1.type = s2.type /\ s1.player = s2.player
Shown(c) == {<<s.name, s.type, s.player>> : s \in c}
C6_EqualityByTuple ==
    /\ \A p \in players : \A s1, s2 \in p.ships : SameTuple(s1, s2) => s1 = s2
    /\ (prog = "fleetcomp" /\ pc = "generated") =>
          \A i, j \in DOMAIN out : Shown(out[i]) = Shown(out[j]) => i = j

\* C9 as stated: a composition yielded by team_compositions(set(), group)
\* holds exactly one ship from every player of the group.
C9_OnlyAtEmptyGroup ==
    (pc = "assigned" /\ rs.size_limit >= 1) =>
        \A i \in DOMAIN out :
            \A p \in Range(group) : Cardinality(out[i] \cap p.ships) = 1

\* C9 as amended: team_compositions(set(), group) yields a selection as soon
\* as it is full and valid, whether or not players of the group are left: it
\* yields exactly the valid choices of one ship from each of the first
\* team_size players of the group, each once, and nothing when the group is
\* shorter than team_size.
C9_YieldWhenFull ==
    pc = "assigned" =>
        /\ Len(group) >= rs.size_limit =>
              /\ Range(out) = ValidChoices(Range(Prefix(group, rs.size_limit)))
              /\ NoRepeats(out)
        /\ Len(group) < rs.size_limit => out = <<>>

C9_Witness ==
    /\ pc = "assigned"
    /\ rs.size_limit >= 1
    /\ Len(group) > rs.size_limit
    /\ out # <<>>
    /\ \E i \in DOMAIN out : \E p \in Range(group) : out[i] \cap p.ships = {}

\* The three conditions of validity, stated over the composition as a set.
ValidByDefinition(r, c) ==
    /\ Cardinality(c) <= r.size_limit
    /\ \A ship \in c : ship.name \notin r.banned_ships /\ ship.type \notin r.banned_types
    /\ \A rname \in DOMAIN r.restrictions :
          LET rinfo == r.restrictions[rname]
              hits == {ship \in c : IF rinfo.rtype = "ships" THEN ship.name \in rinfo.match
                                    ELSE ship.type \in rinfo.match}
          IN Cardinality(hits) <= rinfo.allowed

NonNegativeAllowed(r) ==
    \A rname \in DOMAIN r.restrictions : r.restrictions[rname].allowed >= 0

\* C5: with non-negative allowed values, is_valid returns true exactly when
\* the composition has at most team_size ships, none of them banned by name
\* or by category, and no counted rule matched by more ships than it allows.
C5_IsValid ==
    (verdict # "none" /\ NonNegativeAllowed(rs)) =>
        (verdict = "valid" <=> ValidByDefinition(rs, comp))

C5_Witness ==
    /\ verdict = "invalid"
    /\ NonNegativeAllowed(rs)
    /\ Cardinality(comp) <= rs.size_limit
    /\ \A ship \in comp : ~is_banned(rs, ship)
    /\ \E ship \in comp : ship.type = "DD"

\* C7: with_team_size never changes the rule set it is called on; the copy
\* has size_limit = n and otherwise the same rules; and a later change to
\* one object's ban set or counted rules reaches no other object.
C7_CopyIsIndependent ==
    /\ Len(objs) = Len(expect)
    /\ \A i \in DOMAIN objs : View([objs |-> objs, heap |-> heap], i) = expect[i]

C7_Witness ==
    /\ Len(objs) = 3
    /\ objs[2].size_limit # objs[3].size_limit
    /\ expect[1] = rs
    /\ expect[2].banned_ships # expect[1].banned_ships
    /\ expect[3].banned_ships = expect[1].banned_ships
    /\ expect[3].restrictions # expect[1].restrictions

\* C8 (Determinism): generate_comps run again on the same roster and the
\* same rules yields the same compositions in the same order.
C8_Determinism ==
    (prog = "fleetcomp" /\ pc = "generated" /\ runs > 0) => out = prev

\* C10: the team that fleetcomp.py's Team.menu returns holds exactly
\* team_size players, each of them offered and with at least one ship.
C10_MenuReturnsFullTeam ==
    pc = "returned" =>
        /\ Cardinality(division) = rs.size_limit
        /\ \A p \in division : p \in players /\ PlayerBool(p)
====
